---- MODULE Spec2Model ----
(***************************************************************************)
(* A model of the evaluation pipeline of tors-distribution-eval:           *)
(*   - compute-metrics.py : the parallel aggregator (main, eval_run)       *)
(*   - split-data.py      : the data splitter (main)                       *)
(*   - lkdemo/metrics.py  : rank-biased precision, scalar and bulk form    *)
(* Each program has its own specification (SpecAgg, SpecSplit, SpecRbp);   *)
(* the variables of the other two programs stay at their idle values.      *)
(***************************************************************************)
EXTENDS Integers, Sequences, FiniteSets, TLC

\* Python's None
None == "None"

(***************************************************************************)
(* Bounds of the model                                                     *)
(***************************************************************************)
\* at most this many files in the run directory
MaxFiles == 3
\* the largest -p, -R and -n given to the splitter
MaxParts == 3
MaxReps == 2
MaxRates == 2
\* the longest recommendation list
MaxLen == 2

VARIABLES
    \* ---- compute-metrics.py ----
    dirFiles,     \* the files of runs/<data>-<algo>/ (environment)
    truthFiles,   \* the files of data-split/<data>/ (environment)
    run_files,    \* main: the list the directory scan returned
    pcMain,       \* main: position
    tpc,          \* per task (index into run_files): position of eval_run
    part,         \* per task: the partition id eval_run extracted (or None)
    completed,    \* task indices in the order the tasks returned
    res,          \* main: the dict, as its (key, value) items in dict order
    scores,       \* main: the concatenated table, as its blocks in order
    artifact,     \* the score artifact on disk (None: not written)
    \* ---- split-data.py ----
    partitions,   \* main: args['-p'], then its int
    nusers,       \* main: args['-u'], then its int
    reps,         \* main: args['-R'], then its int
    nrates,       \* main: args['-n'], then its int
    pcSplit,      \* main: position
    nwritten,     \* main: the number of loop iterations completed
    files,        \* the output directory: file name -> test rows
    \* ---- lkdemo/metrics.py ----
    recs,         \* per user: the recommendation list, rows <<item, rank>>
    truth,        \* per user: the set of relevant items
    patience,     \* the patience, <<numerator, denominator>>
    k,            \* the cutoff (None: no cutoff)
    pcRbp,        \* "input", or "idle" when the metric is not in use
    scalarRes,    \* per user: what rbp returned (<<"nocall">>: not called yet)
    bulkRes       \* <<"ret", what _bulk_rbp returned>> (<<"nocall">>: not called)

aggVars == <<dirFiles, truthFiles, run_files, pcMain, tpc, part, completed,
             res, scores, artifact>>

splitVars == <<partitions, nusers, reps, nrates, pcSplit, nwritten, files>>

rbpVars == <<recs, truth, patience, k, pcRbp, scalarRes, bulkRes>>

vars == <<aggVars, splitVars, rbpVars>>

\* the splitter is not running
SplitIdle ==
    /\ partitions = <<"None">>
    /\ nusers = <<"None">>
    /\ reps = <<"None">>
    /\ nrates = <<"None">>
    /\ pcSplit = "idle"
    /\ nwritten = 0
    /\ files = <<>>

\* the metric is not in use
RbpIdle ==
    /\ recs = <<>>
    /\ truth = <<>>
    /\ patience = <<4, 5>>
    /\ k = <<"None">>
    /\ pcRbp = "idle"
    /\ scalarRes = <<>>
    /\ bulkRes = <<"nocall">>

\* the aggregator is not running
AggIdle ==
    /\ dirFiles = {}
    /\ truthFiles = {}
    /\ run_files = <<>>
    /\ pcMain = "idle"
    /\ tpc = <<>>
    /\ part = <<>>
    /\ completed = <<>>
    /\ res = <<>>
    /\ scores = <<>>
    /\ artifact = "None"

(***************************************************************************)
(* compute-metrics.py                                                      *)
(*                                                                         *)
(* A file name is the sequence of its literal fragments: "recs-1.parquet"  *)
(* is <<"recs-", "1", ".parquet">>.                                        *)
(***************************************************************************)
Digits == {"0", "1", "2"}

\* the names the run directory may hold
FileNames ==
    { <<"recs-", "1", ".parquet">>,
      <<"recs-", "2", ".parquet">>,
      <<"recs-", "1", ".parquet", ".old", ".parquet">>,
      <<"recs-", "x", ".parquet">>,
      <<"recs-", "2", ".csv">> }

\* the truth files the split directory may hold
TruthNames ==
    { <<"test-", "1", ".parquet">>, <<"test-", "2", ".parquet">> }

\* rd.glob('recs-*.parquet'): the prefix, anything, the suffix
GlobMatch(name) ==
    /\ Len(name) >= 2
    /\ name[1] = "recs-"
    /\ name[Len(name)] = ".parquet"

\* the number of digit fragments of name from position i on (the greedy \d+)
RECURSIVE DigitRun(_, _)
DigitRun(name, i) ==
    IF i <= Len(name) /\ name[i] \in Digits
    THEN 1 + DigitRun(name, i + 1)
    ELSE 0

\* _fn_re.match(runf.name): the pattern recs-(\d+)\.parquet matched at the start
\* of the name (re.match does not anchor the end); the result is group(1), or
\* None when there is no match
FnMatch(name) ==
    LET n == DigitRun(name, 2) IN
    IF /\ Len(name) >= 1
       /\ name[1] = "recs-"
       /\ n >= 1
       /\ Len(name) >= n + 2
       /\ name[n + 2] = ".parquet"
    THEN SubSeq(name, 2, n + 1)
    ELSE None

\* test_dir / f'test-{part}.parquet'
TruthFileOf(p) == <<"test-">> \o p \o <<".parquet">>

\* the orders in which a directory scan may list the files of S
Listings(S) ==
    { s \in [1..Cardinality(S) -> S] :
        \A i, j \in 1..Cardinality(S) : i # j => s[i] # s[j] }

Tasks == 1..Len(run_files)

InitAgg ==
    /\ dirFiles \in { S \in SUBSET FileNames : Cardinality(S) <= MaxFiles }
    /\ truthFiles \in SUBSET TruthNames
    /\ run_files = <<>>
    /\ pcMain = "scan"
    /\ tpc = <<>>
    /\ part = <<>>
    /\ completed = <<>>
    /\ res = <<>>
    /\ scores = <<>>
    /\ artifact = None
    /\ SplitIdle
    /\ RbpIdle

\* main, lines 59-61: the directory scan; its listing order is the file system's
Scan ==
    /\ pcMain = "scan"
    /\ \E l \in Listings({ f \in dirFiles : GlobMatch(f) }) :
          /\ run_files' = l
          /\ tpc' = [i \in 1..Len(l) |-> "pending"]
          /\ part' = [i \in 1..Len(l) |-> None]
    /\ pcMain' = "parallel"
    /\ UNCHANGED <<dirFiles, truthFiles, completed, res, scores, artifact,
                   splitVars, rbpVars>>

\* main, line 64: the pool starts eval_run(data, path) on a worker
TaskStart(i) ==
    /\ pcMain = "parallel"
    /\ tpc[i] = "pending"
    /\ tpc' = [tpc EXCEPT ![i] = "started"]
    /\ UNCHANGED <<dirFiles, truthFiles, run_files, pcMain, part, completed,
                   res, scores, artifact, splitVars, rbpVars>>

\* eval_run, lines 32-33: m.group(1) raises AttributeError when m is None
EvalMatch(i) ==
    /\ pcMain = "parallel"
    /\ tpc[i] = "started"
    /\ LET m == FnMatch(run_files[i]) IN
          IF m = None
          THEN /\ tpc' = [tpc EXCEPT ![i] = "failed"]
               /\ part' = part
          ELSE /\ tpc' = [tpc EXCEPT ![i] = "matched"]
               /\ part' = [part EXCEPT ![i] = m]
    /\ UNCHANGED <<dirFiles, truthFiles, run_files, pcMain, completed,
                   res, scores, artifact, splitVars, rbpVars>>

\* Faulty variant of EvalReadRecs: the table is loaded before the name is
\* matched, and the partition id is whatever follows "recs-"
EvalReadRecsUnchecked(i) ==
    /\ pcMain = "parallel"
    /\ tpc[i] \in {"started", "matched"}
    /\ tpc' = [tpc EXCEPT ![i] = "recs"]
    /\ part' = [part EXCEPT ![i] = SubSeq(run_files[i], 2, 2)]
    /\ UNCHANGED <<dirFiles, truthFiles, run_files, pcMain, completed,
                   res, scores, artifact, splitVars, rbpVars>>

\* eval_run, line 35: the recommendation table is loaded
EvalReadRecs(i) ==
    /\ pcMain = "parallel"
    /\ tpc[i] = "matched"
    /\ tpc' = [tpc EXCEPT ![i] = "recs"]
    /\ UNCHANGED <<dirFiles, truthFiles, run_files, pcMain, part, completed,
                   res, scores, artifact, splitVars, rbpVars>>

\* eval_run, line 36: the truth table is loaded; a missing file raises
EvalReadTest(i) ==
    /\ pcMain = "parallel"
    /\ tpc[i] = "recs"
    /\ tpc' = [tpc EXCEPT ![i] =
                  IF TruthFileOf(part[i]) \in truthFiles THEN "test" ELSE "failed"]
    /\ UNCHANGED <<dirFiles, truthFiles, run_files, pcMain, part, completed,
                   res, scores, artifact, splitVars, rbpVars>>

\* eval_run, lines 38-47: the analysis runs and the task returns (part, vals),
\* or the analysis raises
EvalCompute(i) ==
    /\ pcMain = "parallel"
    /\ tpc[i] = "test"
    /\ \E ok \in BOOLEAN :
          IF ok
          THEN /\ tpc' = [tpc EXCEPT ![i] = "done"]
               /\ completed' = Append(completed, i)
          ELSE /\ tpc' = [tpc EXCEPT ![i] = "failed"]
               /\ completed' = completed
    /\ UNCHANGED <<dirFiles, truthFiles, run_files, pcMain, part,
                   res, scores, artifact, splitVars, rbpVars>>

\* the position of the first item of d with the given key (0: none)
RECURSIVE KeyIndex(_, _, _)
KeyIndex(d, key, i) ==
    IF i > Len(d) THEN 0
    ELSE IF d[i][1] = key THEN i
    ELSE KeyIndex(d, key, i + 1)

\* dict(items): a key keeps the position of its first occurrence and takes the
\* value of its last
RECURSIVE Dict(_)
Dict(items) ==
    IF items = <<>> THEN <<>>
    ELSE LET d == Dict(SubSeq(items, 1, Len(items) - 1))
             it == items[Len(items)]
             at == KeyIndex(d, it[1], 1)
         IN IF at = 0 THEN Append(d, it) ELSE [d EXCEPT ![at] = it]

\* Faulty variant of ParallelResults: the results in the order the tasks
\* returned
ParallelResultsUnordered ==
    [n \in 1..Len(completed) |->
        <<part[completed[n]], run_files[completed[n]]>>]

\* the list loop(...) returns: one (part, vals) per task, in the order the
\* tasks were submitted; vals is identified by the run file it was computed from
ParallelResults ==
    [i \in 1..Len(run_files) |-> <<part[i], run_files[i]>>]

\* Faulty variant of Collect: the results of the tasks that returned are kept
\* and the exceptions of the others dropped
CollectSwallow ==
    /\ pcMain = "parallel"
    /\ \A i \in Tasks : tpc[i] \in {"done", "failed"}
    /\ res' = Dict(ParallelResultsUnordered)
    /\ pcMain' = "compiling"
    /\ UNCHANGED <<dirFiles, truthFiles, run_files, tpc, part, completed,
                   scores, artifact, splitVars, rbpVars>>

\* main, line 64: every task has returned and dict(...) is built
Collect ==
    /\ pcMain = "parallel"
    /\ \A i \in Tasks : tpc[i] = "done"
    /\ res' = Dict(ParallelResults)
    /\ pcMain' = "compiling"
    /\ UNCHANGED <<dirFiles, truthFiles, run_files, tpc, part, completed,
                   scores, artifact, splitVars, rbpVars>>

\* main, line 64: the pool re-raises a task's exception, which leaves the with
\* block and main
Raise ==
    /\ pcMain = "parallel"
    /\ \E i \in Tasks : tpc[i] = "failed"
    /\ pcMain' = "raised"
    /\ UNCHANGED <<dirFiles, truthFiles, run_files, tpc, part, completed,
                   res, scores, artifact, splitVars, rbpVars>>

\* main, line 67: pd.concat(res, names=['run']) takes the blocks in dict order;
\* it raises ValueError on an empty dict
Concat ==
    /\ pcMain = "compiling"
    /\ IF res = <<>>
       THEN /\ pcMain' = "raised"
            /\ scores' = scores
       ELSE /\ pcMain' = "saving"
            /\ scores' = res
    /\ UNCHANGED <<dirFiles, truthFiles, run_files, tpc, part, completed,
                   res, artifact, splitVars, rbpVars>>

\* main, line 70: scores.to_parquet(outf)
Save ==
    /\ pcMain = "saving"
    /\ artifact' = scores
    /\ pcMain' = "done"
    /\ UNCHANGED <<dirFiles, truthFiles, run_files, tpc, part, completed,
                   res, scores, splitVars, rbpVars>>

NextAgg ==
    \/ Scan
    \/ \E i \in Tasks : TaskStart(i)
    \/ \E i \in Tasks : EvalMatch(i)
    \/ \E i \in Tasks : EvalReadRecs(i)
    \/ \E i \in Tasks : EvalReadTest(i)
    \/ \E i \in Tasks : EvalCompute(i)
    \/ Collect
    \/ Raise
    \/ Concat
    \/ Save

SpecAgg == InitAgg /\ [][NextAgg]_vars

(***************************************************************************)
(* Claims about compute-metrics.py (checked under SpecAgg)                 *)
(***************************************************************************)
Failed == { i \in Tasks : tpc[i] = "failed" }
Loaded == { i \in Tasks : tpc[i] \in {"recs", "test", "done"} }
BadNames == { i \in Tasks : FnMatch(run_files[i]) = None }

\* C1: all-or-nothing. Once a task has raised, main never gets past the pool
\* and the score artifact is not written; the artifact is written only when
\* every task has returned.
C1_AllOrNothing ==
    /\ Failed # {} => (artifact = None /\ pcMain \in {"parallel", "raised"})
    /\ artifact # None => \A i \in Tasks : tpc[i] = "done"

\* a task raised after another one returned, and the error left main
C1_Witness ==
    /\ pcMain = "raised"
    /\ Failed # {}
    /\ \E i \in Tasks : tpc[i] = "done"

\* the partition ids of a listing, in its order
PartsInOrder(l) == [i \in 1..Len(l) |-> FnMatch(l[i])]

\* the elements of s in the order of their first occurrence
RECURSIVE FirstOccurrences(_)
FirstOccurrences(s) ==
    IF s = <<>> THEN <<>>
    ELSE LET r == FirstOccurrences(SubSeq(s, 1, Len(s) - 1)) IN
         IF \E j \in 1..Len(r) : r[j] = s[Len(s)] THEN r
         ELSE Append(r, s[Len(s)])

\* the keys of the blocks of a table, in order
BlockKeys(t) == [b \in 1..Len(t) |-> t[b][1]]

\* C2 (as amended): the blocks of the written table are in the order in which
\* the directory scan listed the run files (each partition id at its first
\* occurrence), whatever the order in which the tasks returned.
C2_ListingOrder ==
    pcMain = "done" =>
        BlockKeys(artifact) = FirstOccurrences(PartsInOrder(run_files))

\* a table of two blocks was written although the second task returned first
C2_Witness ==
    /\ pcMain = "done"
    /\ Len(artifact) >= 2
    /\ completed[1] # 1

\* C2 (as claimed): the block order is the same for every order in which the
\* directory scan may list the same run files.
C2_AnyListingSameOrder ==
    pcMain = "done" =>
        \A l \in Listings({ run_files[i] : i \in Tasks }) :
            BlockKeys(artifact) = FirstOccurrences(PartsInOrder(l))

\* C3 (as amended): the file name is matched inside each task, as its first
\* step: a task whose file name does not match never loads a table and
\* extracts no partition id, and with such a file discovered the artifact is
\* never written; the tasks of the other files may have started and loaded
\* their tables.
C3_MatchFirstInTask ==
    /\ \A i \in BadNames : tpc[i] \in {"pending", "started", "failed"}
                           /\ part[i] = None
    /\ BadNames # {} => (artifact = None /\ pcMain \in {"parallel", "raised"})

\* the aggregation failed on a bad name after another task loaded its tables
C3_Witness ==
    /\ pcMain = "raised"
    /\ \E i \in BadNames : tpc[i] = "failed"
    /\ Loaded # {}

\* C3 (as claimed): with a non-matching file name discovered, no table is
\* loaded for any run file.
C3_NoWorkBeforeValidation ==
    BadNames # {} => Loaded = {}

\* C10: after a successful aggregation the table has one block per discovered
\* run file, and no two discovered files have the same partition id.
C10_OneEntryPerRunFile ==
    pcMain = "done" =>
        /\ Len(artifact) = Len(run_files)
        /\ \A i \in Tasks : \E b \in 1..Len(artifact) : artifact[b][2] = run_files[i]
        /\ \A i, j \in Tasks : i # j => part[i] # part[j]

(***************************************************************************)
(* split-data.py                                                           *)
(*                                                                         *)
(* A Python value is <<"None">>, <<"str", v>> (the text of the number v,   *)
(* as docopt hands a flag over) or <<"int", v>>.                           *)
(***************************************************************************)
PyNone == <<"None">>
PyStr(v) == <<"str", v>>
PyInt(v) == <<"int", v>>

\* the truth value of a Python value: None is false, the text of a flag is not
\* empty and so true, an int is true when it is not 0
Truthy(x) ==
    CASE x[1] = "None" -> FALSE
      [] x[1] = "str" -> TRUE
      [] x[1] = "int" -> x[2] # 0

\* x = args.get(flag); if x: x = int(x)       (lines 25-34)
ParseFlag(x) == IF Truthy(x) THEN PyInt(x[2]) ELSE x

\* the data set: (user, item) ratings
UserIds == {"u1", "u2"}
Ratings == { <<"u1", "a">>, <<"u1", "b">>, <<"u1", "c">>,
             <<"u2", "a">>, <<"u2", "b">> }

\* the names of the test-set artifacts (lines 66 and 70)
IndexedName(i) == <<"test-", i, ".parquet">>
PlainName == <<"test", ".parquet">>

\* Faulty variant of FoldStart: enumerate(parts)
FoldStartZero == 1 - 1

\* the first index of enumerate(parts, 1) (line 63)
FoldStart == 1

\* Faulty variant of Samp: one row too many per user
SampOneMore == nrates[2] + 1

\* samp = xf.SampleN(nrates) (line 53): the per-user sample size
Samp == nrates[2]

RowsOf(rows, u) == { r \in rows : r[1] = u }

\* every row a test set written so far holds
Written == UNION { files[f] : f \in DOMAIN files }

\* xf.SampleN(n) applied to the rows of one user: n of them (all, if fewer)
SampleN(n, rows) ==
    LET m == IF Cardinality(rows) < n THEN Cardinality(rows) ELSE n
    IN { S \in SUBSET rows : Cardinality(S) = m }

\* the test sets one draw can give for the test users us, sampling each user's
\* rows out of avail
RECURSIVE TestSets(_, _, _)
TestSets(us, n, avail) ==
    IF us = {} THEN { {} }
    ELSE LET u == CHOOSE x \in us : TRUE IN
         { S \cup T : S \in SampleN(n, RowsOf(avail, u)),
                      T \in TestSets(us \ {u}, n, avail) }

\* the test users a draw may take: at most size of them (any, when size is None)
TestUsers(size) ==
    { us \in SUBSET UserIds : size[1] = "int" => Cardinality(us) <= size[2] }

\* one fold of xf.partition_users / xf.sample_users(ratings, partitions, ...):
\* its test rows are sampled per test user, out of the rows no earlier fold of
\* this call holds
FoldTests(size, n, taken) ==
    UNION { TestSets(us, n, Ratings \ taken) : us \in TestUsers(size) }

InitSplit ==
    /\ partitions \in {PyNone} \cup { PyStr(v) : v \in 0..MaxParts }
    /\ nusers \in {PyNone} \cup { PyStr(v) : v \in 1..Cardinality(UserIds) }
    /\ reps \in {PyNone} \cup { PyStr(v) : v \in 0..MaxReps }
    /\ nrates \in { PyStr(v) : v \in 1..MaxRates }
    /\ pcSplit = "args"
    /\ nwritten = 0
    /\ files = <<>>
    /\ AggIdle
    /\ RbpIdle

\* main, lines 24-38: the flags are parsed; without -p and -u the script exits
ParseArgs ==
    /\ pcSplit = "args"
    /\ partitions' = ParseFlag(partitions)
    /\ nusers' = ParseFlag(nusers)
    /\ reps' = ParseFlag(reps)
    /\ nrates' = PyInt(nrates[2])
    /\ pcSplit' = IF partitions = PyNone /\ nusers = PyNone
                  THEN "exit2" ELSE "setup"
    /\ UNCHANGED <<nwritten, files, aggVars, rbpVars>>

\* main, lines 40-62 and 67-68: the mode is chosen. Without -p the loop is over
\* range(max(reps, 1)), and max(None, 1) raises TypeError.
ChooseMode ==
    /\ pcSplit = "setup"
    /\ pcSplit' = IF Truthy(partitions) THEN "folds"
                  ELSE IF reps = PyNone THEN "TypeError"
                  ELSE "samples"
    /\ UNCHANGED <<partitions, nusers, reps, nrates, nwritten, files, aggVars, rbpVars>>

\* main, lines 63-66: the next fold is drawn and its test set written
WriteFold ==
    /\ pcSplit = "folds"
    /\ nwritten < partitions[2]
    /\ \E test \in FoldTests(IF Truthy(nusers) THEN nusers ELSE PyNone,
                             Samp, Written) :
          files' = (IndexedName(FoldStart + nwritten) :> test) @@ files
    /\ nwritten' = nwritten + 1
    /\ UNCHANGED <<partitions, nusers, reps, nrates, pcSplit, aggVars, rbpVars>>

\* main, line 63: parts is exhausted after the last fold
FoldsEnd ==
    /\ pcSplit = "folds"
    /\ nwritten = partitions[2]
    /\ pcSplit' = "done"
    /\ UNCHANGED <<partitions, nusers, reps, nrates, nwritten, files, aggVars, rbpVars>>

\* main, lines 69-73: one sample is drawn and written. The samples are
\* independent of each other; xf.sample_users computes with the user count, and
\* without -u (None) that raises TypeError.
WriteSample ==
    /\ pcSplit = "samples"
    /\ nwritten < (IF reps[2] > 1 THEN reps[2] ELSE 1)
    /\ IF nusers = PyNone
       THEN /\ pcSplit' = "TypeError"
            /\ UNCHANGED <<nwritten, files>>
       ELSE /\ \E test \in FoldTests(nusers, Samp, {}) :
                  files' = ((IF Truthy(reps) THEN IndexedName(nwritten)
                             ELSE PlainName) :> test) @@ files
            /\ nwritten' = nwritten + 1
            /\ pcSplit' = pcSplit
    /\ UNCHANGED <<partitions, nusers, reps, nrates, aggVars, rbpVars>>

\* main, line 68: the range is exhausted
SamplesEnd ==
    /\ pcSplit = "samples"
    /\ nwritten = (IF reps[2] > 1 THEN reps[2] ELSE 1)
    /\ pcSplit' = "done"
    /\ UNCHANGED <<partitions, nusers, reps, nrates, nwritten, files, aggVars, rbpVars>>

NextSplit ==
    \/ ParseArgs
    \/ ChooseMode
    \/ WriteFold
    \/ FoldsEnd
    \/ WriteSample
    \/ SamplesEnd

SpecSplit == InitSplit /\ [][NextSplit]_vars

(***************************************************************************)
(* Claims about split-data.py (checked under SpecSplit)                    *)
(***************************************************************************)
Parsed == pcSplit \notin {"idle", "args"}
PartitionMode == Parsed /\ partitions[1] = "int" /\ partitions[2] >= 1

\* C4: without -p and with -u, the splitter ends without error, having written
\* test-0.parquet .. test-(R-1).parquet when -R R was given and test.parquet
\* alone when it was not.
C4_RepeatedSampling ==
    (Parsed /\ partitions = PyNone /\ nusers # PyNone) =>
        /\ pcSplit \notin {"TypeError", "exit2"}
        /\ pcSplit = "done" =>
              DOMAIN files = IF reps = PyNone THEN {PlainName}
                             ELSE { IndexedName(i) : i \in 0..(reps[2] - 1) }

\* C6: with -p P, P >= 1, the splitter runs in partition mode whether or not -R
\* is given, never fails, and writes test-1.parquet .. test-P.parquet and
\* neither test.parquet nor test-0.parquet.
C6_PartitionMode ==
    PartitionMode =>
        /\ pcSplit \in {"setup", "folds", "done"}
        /\ DOMAIN files = { IndexedName(i) : i \in 1..nwritten }
        /\ pcSplit = "done" => nwritten = partitions[2]

\* partition mode ended with -R given and more than one fold written
C6_Witness ==
    /\ PartitionMode
    /\ pcSplit = "done"
    /\ Truthy(reps)
    /\ Cardinality(DOMAIN files) >= 2

\* C7: in partition mode the test sets of distinct folds share no (user, item)
\* row, and each holds at most n rows of a user.
C7_DisjointFolds ==
    PartitionMode =>
        /\ \A f, g \in DOMAIN files : f # g => files[f] \cap files[g] = {}
        /\ \A f \in DOMAIN files : \A u \in UserIds :
              Cardinality(RowsOf(files[f], u)) <= nrates[2]

\* partition mode ended with a user in the test sets of two folds, one of them
\* holding n of the user's rows
C7_Witness ==
    /\ PartitionMode
    /\ pcSplit = "done"
    /\ \E u \in UserIds : \E f, g \in DOMAIN files :
          /\ f # g
          /\ Cardinality(RowsOf(files[f], u)) = nrates[2]
          /\ RowsOf(files[g], u) # {}

(***************************************************************************)
(* lkdemo/metrics.py                                                       *)
(*                                                                         *)
(* A patience p is the fraction p[1] / p[2]. A score is kept exactly, as   *)
(* <<"num", v>>: the value v / p[2]^(MaxLen + 1).                          *)
(***************************************************************************)
\* PATIENCE = 0.8
PATIENCE == <<4, 5>>

Users == {"u1", "u2"}
Items == {"a", "b", "c"}

RECURSIVE Pow(_, _)
Pow(b, e) == IF e = 0 THEN 1 ELSE b * Pow(b, e - 1)

\* discount(ranks, patience) = patience ** ranks, over p[2]^MaxLen
discount(rank, p) == Pow(p[1], rank) * Pow(p[2], MaxLen - rank)

\* the sum of the discounts of a set of ranks
RECURSIVE SumDiscount(_, _)
SumDiscount(ranks, p) ==
    IF ranks = {} THEN 0
    ELSE LET r == CHOOSE x \in ranks : TRUE IN
         discount(r, p) + SumDiscount(ranks \ {r}, p)

\* Faulty variant of Truncate: recs.iloc[k:], the rows after the first k
TruncateDrop(rows, kk) ==
    IF kk = PyNone THEN rows
    ELSE SubSeq(rows, kk[2] + 1, Len(rows))

\* recs.iloc[:k]: the first k rows (line 25)
Truncate(rows, kk) ==
    IF kk = PyNone THEN rows
    ELSE SubSeq(rows, 1, IF kk[2] < Len(rows) THEN kk[2] ELSE Len(rows))

\* Faulty variant of rbp: None when no recommended item is relevant
rbpNoneWithoutHit(rows, rel, kk, p) ==
    LET cut == Truncate(rows, kk)
        good == { i \in 1..Len(cut) : cut[i][1] \in rel }
    IN IF good = {} THEN PyNone
       ELSE <<"num", SumDiscount({ cut[i][2] : i \in good }, p) * (p[2] - p[1])>>

\* rbp(recs, truth, k, patience), lines 23-34
rbp(rows, rel, kk, p) ==
    LET cut == Truncate(rows, kk)
        nrel == Cardinality(rel)
        good == { i \in 1..Len(cut) : cut[i][1] \in rel }
        ranks == { cut[i][2] : i \in good }
    IN IF nrel = 0 THEN PyNone
       ELSE <<"num", SumDiscount(ranks, p) * (p[2] - p[1])>>

\* the recommendation table of all users: rows <<user, item, rank>>
RecTable ==
    UNION { { <<u, recs[u][i][1], recs[u][i][2]>> : i \in 1..Len(recs[u]) } :
            u \in Users }

\* the truth table of all users: rows <<user, item>>
TruthTable == UNION { { <<u, i>> : i \in truth[u] } : u \in Users }

\* _bulk_rbp(recs, truth, k, patience), lines 38-46: the result has an entry
\* for each list that has a row in the inner join
bulk_rbp(rt, tt, kk, p) ==
    LET cut == IF kk = PyNone THEN rt ELSE { r \in rt : r[3] <= kk[2] }
        good == { r \in cut : <<r[1], r[2]>> \in tt }
        groups == { r[1] : r \in good }
    IN [u \in groups |->
          <<"num", SumDiscount({ r[3] : r \in { g \in good : g[1] = u } }, p)
                     * (p[2] - p[1])>>]

\* the lists of at most MaxLen distinct items, ranked from 1
RecLists ==
    LET seqs == UNION { [1..n -> Items] : n \in 0..MaxLen }
    IN { [i \in 1..Len(s) |-> <<s[i], i>>] :
          s \in { t \in seqs : \A i, j \in 1..Len(t) : i # j => t[i] # t[j] } }

InitRbp ==
    /\ recs \in [Users -> RecLists]
    /\ truth \in [Users -> SUBSET Items]
    /\ patience \in {PATIENCE, <<1, 2>>}
    /\ k \in {PyNone} \cup { PyInt(v) : v \in 0..MaxLen }
    /\ pcRbp = "input"
    /\ scalarRes = [u \in Users |-> <<"nocall">>]
    /\ bulkRes = <<"nocall">>
    /\ AggIdle
    /\ SplitIdle

\* the scalar form is applied to the slice of user u
CallScalar(u) ==
    /\ pcRbp = "input"
    /\ scalarRes[u] = <<"nocall">>
    /\ scalarRes' = [scalarRes EXCEPT ![u] = rbp(recs[u], truth[u], k, patience)]
    /\ UNCHANGED <<recs, truth, patience, k, pcRbp, bulkRes, aggVars, splitVars>>

\* the bulk form is applied to the whole tables
CallBulk ==
    /\ pcRbp = "input"
    /\ bulkRes = <<"nocall">>
    /\ bulkRes' = <<"ret", bulk_rbp(RecTable, TruthTable, k, patience)>>
    /\ UNCHANGED <<recs, truth, patience, k, pcRbp, scalarRes, aggVars, splitVars>>

NextRbp ==
    \/ \E u \in Users : CallScalar(u)
    \/ CallBulk

SpecRbp == InitRbp /\ [][NextRbp]_vars

(***************************************************************************)
(* Claims about lkdemo/metrics.py (checked under SpecRbp)                  *)
(***************************************************************************)
ScalarCalled(u) == scalarRes[u] # <<"nocall">>
BulkCalled == bulkRes[1] = "ret"

\* C5: the bulk result restricted to a user of the table equals the scalar
\* result on that user's slice: the user is absent from the bulk result exactly
\* when the scalar form returns None, and otherwise the two scores are equal.
C5_BulkEqualsScalar ==
    \A u \in Users :
        (BulkCalled /\ ScalarCalled(u) /\ recs[u] # <<>>) =>
            /\ (u \notin DOMAIN bulkRes[2]) <=> (scalarRes[u] = PyNone)
            /\ (u \in DOMAIN bulkRes[2]) => bulkRes[2][u] = scalarRes[u]

\* C8: the scalar form returns None exactly for an empty truth set, whatever
\* the list and the cutoff; for a non-empty truth set it returns a number,
\* which is 0 when no recommended item is relevant.
C8_UndefinedIsNone ==
    \A u \in Users :
        ScalarCalled(u) =>
            /\ (truth[u] = {}) <=> (scalarRes[u] = PyNone)
            /\ truth[u] # {} => (scalarRes[u][1] = "num" /\ scalarRes[u][2] >= 0)
            /\ (truth[u] # {} /\ \A i \in 1..Len(recs[u]) : recs[u][i][1] \notin truth[u])
                  => scalarRes[u] = <<"num", 0>>

\* the scalar form returned None for a non-empty list under a cutoff
C8_Witness ==
    \E u \in Users :
        /\ ScalarCalled(u)
        /\ truth[u] = {}
        /\ Len(recs[u]) >= 1
        /\ k # PyNone
        /\ scalarRes[u] = PyNone

\* C9: for a non-empty truth set, the score under a cutoff is at most the score
\* under every larger cutoff and at most the score without cutoff.
C9_TruncationMonotone ==
    \A u \in Users :
        (ScalarCalled(u) /\ truth[u] # {}) =>
            /\ \A k2 \in 0..(MaxLen + 1) :
                  (k # PyNone /\ k[2] < k2) =>
                      scalarRes[u][2] <= rbp(recs[u], truth[u], PyInt(k2), patience)[2]
            /\ \A k1 \in 0..MaxLen :
                  (k = PyNone \/ k1 < k[2]) =>
                      rbp(recs[u], truth[u], PyInt(k1), patience)[2] <= scalarRes[u][2]
            /\ scalarRes[u][2] <= rbp(recs[u], truth[u], PyNone, patience)[2]

\* the cutoff removed a relevant item: the score is smaller than without cutoff
C9_Witness ==
    \E u \in Users :
        /\ ScalarCalled(u)
        /\ truth[u] # {}
        /\ k = PyInt(1)
        /\ Len(recs[u]) >= 2
        /\ recs[u][2][1] \in truth[u]
        /\ scalarRes[u][2] < rbp(recs[u], truth[u], PyNone, patience)[2]

====
